---- MODULE Spec2Model ----
(***************************************************************************)
(* Notice board: the notice lifecycle (create / approve / reject /         *)
(* delete), the row-level-security policies and audit triggers of the      *)
(* database, the role store and the notice list of the student dashboard.  *)
(*                                                                         *)
(* A handler is modelled as the request it sends with the caller's         *)
(* identity (auth.uid()); the database decides with the policy declared    *)
(* FOR that command, runs the row triggers in the same transaction and     *)
(* answers.  The props of a NoticeCard (notice, userRole) are a snapshot   *)
(* taken by an earlier fetch: the handlers send notice.id only and never   *)
(* re-read the stored row.                                                 *)
(***************************************************************************)
EXTENDS Integers, Sequences, FiniteSets, TLC

VARIABLES profiles, user_roles, notices, nextId, audit_logs, now, roleOp, last

\* AuthProvider: the signed-in identity, its effective role, the loading flag
\* and the role lookups in flight
VARIABLES user, userRole, loading, lookups

\* the page showing the notice list: its state, the requests it has in
\* flight, sessionStorage.viewed_notices and the table notice_views
VARIABLES page, noticeList, listLoading, selecting, tracking, viewed_notices,
          notice_views, fetches

\* the sign-up transactions that have not committed yet
VARIABLES signups

\* CreateNoticeDialog: formData (title, content), the verdict shown under
\* the form, and the text the user enters in the content field
\* (e.target.value of its change events)
VARIABLES formData, formModeration, typed, lastIndex

formVars == <<formData, formModeration, typed, lastIndex>>
VARIABLES notice_attachments, dialog
createVars == <<notice_attachments, dialog>>
VARIABLES cursor, inflight, pendingNotices, called
rtVars == <<cursor, inflight, pendingNotices, called>>

authVars == <<user, userRole, loading, lookups>>

viewVars == <<page, noticeList, listLoading, selecting, tracking, viewed_notices,
              notice_views, fetches>>

vars == <<profiles, user_roles, notices, nextId, audit_logs, now, roleOp, last,
          authVars, viewVars, signups, formVars, createVars, rtVars>>

----------------------------------------------------------------------------
(* Bounds of the model *)

NumUsers == 2
MaxNotices == 1
MaxAudit == 4
MaxTime == 1
MaxRoleOps == 1
MaxPublished == 2
MaxFetches == 3
MaxLookups == 2
MaxChunks == 3
MaxAttachments == 1
MaxInflight == 2

(* Program constants *)

MinContentLength == 10
MaxContentLength == 10000
MinMeaningfulWords == 3
MeaningfulWordLength == 2
HighSeverityIssues == 2
LongNumberDigits == 10
CapsRun == 5
AuditLogLimit == 1000

----------------------------------------------------------------------------
(* Values *)

AllUsers == <<"u1", "u2", "u3", "u4">>
Users == {AllUsers[i] : i \in 1..NumUsers}
NoUser == "null"
Roles == {"admin", "staff", "student"}
NoRole == "null"
Status == {"pending", "approved", "rejected"}
NoTime == 0 - 1
NoticeIds == 1..MaxNotices
\* notice ids start at 1
NoNotice == 1 - 1

----------------------------------------------------------------------------
(* Text: a string is a sequence of one-character strings *)

UpperLetters == <<"A","B","C","D","E","F","G","H","I","J","K","L","M",
                  "N","O","P","Q","R","S","T","U","V","W","X","Y","Z">>
LowerLetters == <<"a","b","c","d","e","f","g","h","i","j","k","l","m",
                  "n","o","p","q","r","s","t","u","v","w","x","y","z">>
UpperCase == {UpperLetters[i] : i \in 1..Len(UpperLetters)}
LowerCase == {LowerLetters[i] : i \in 1..Len(LowerLetters)}
Digits == {"0", "1", "2", "3", "4", "5", "6", "7", "8", "9"}
WhiteSpace == {" ", "\n", "\r", "\t"}
WordChars == UpperCase \cup LowerCase \cup Digits \cup {"_"}

toLowerCaseChar(c) ==
  IF c \in UpperCase
  THEN LowerLetters[CHOOSE i \in 1..Len(UpperLetters) : UpperLetters[i] = c]
  ELSE c

\* a lowering that leaves every character as it is
toLowerCase_asIs(s) == s

toLowerCase(s) == [i \in 1..Len(s) |-> toLowerCaseChar(s[i])]

includes(s, w) ==
  \E i \in 1..(Len(s) - Len(w) + 1) : SubSeq(s, i, i + Len(w) - 1) = w

Repeat(c, n) == [i \in 1..n |-> c]

BANNED_WORDS ==
  << <<"i","n","a","p","p","r","o","p","r","i","a","t","e">>,
     <<"o","f","f","e","n","s","i","v","e">>,
     <<"s","p","a","m">> >>

\* the end of the longest run of characters of S that starts at position i
RunEnd(s, i, S) ==
  CHOOSE j \in (i - 1)..Len(s) :
    /\ \A k \in i..j : s[k] \in S
    /\ (j = Len(s) \/ s[j + 1] \notin S)

\* /https?:\/\/[^\s]+/gi: the end of its match at position i, 0 when none
UrlEnd(s, i) ==
  LET k == IF i + 4 <= Len(s) /\ toLowerCaseChar(s[i + 4]) = "s" THEN 5 ELSE 4
  IN IF /\ toLowerCaseChar(s[i]) = "h"
        /\ i + k + 3 <= Len(s)
        /\ toLowerCase(SubSeq(s, i, i + 3)) = <<"h","t","t","p">>
        /\ SubSeq(s, i + k, i + k + 2) = <<":","/","/">>
        /\ s[i + k + 3] \notin WhiteSpace
     THEN RunEnd(s, i + k + 3, {s[n] : n \in 1..Len(s)} \ WhiteSpace)
     ELSE 0

\* /\b\d{10,}\b/g: the end of its match at position i, 0 when none
LongNumberEnd(s, i) ==
  IF s[i] \notin Digits \/ (i > 1 /\ s[i - 1] \in WordChars) THEN 0
  ELSE LET j == RunEnd(s, i, Digits)
       IN IF j - i + 1 >= LongNumberDigits /\ (j = Len(s) \/ s[j + 1] \notin WordChars)
          THEN j ELSE 0

\* /[A-Z]{5,}/g: the end of its match at position i, 0 when none
CapsEnd(s, i) ==
  IF s[i] \notin UpperCase THEN 0
  ELSE LET j == RunEnd(s, i, UpperCase)
       IN IF j - i + 1 >= CapsRun THEN j ELSE 0

\* lastIndex of the three patterns when no test has advanced them
AtRest == [url |-> 0, number |-> 0, caps |-> 0]

\* pattern.test(s) of a pattern with the g flag: the search starts at
\* lastIndex; the value is the pattern's lastIndex after the call, which is
\* the end of the match found and 0 when the test is false
\* ends[i] is the end of the pattern's match at position i of the text
test(ends, from) ==
  LET starts == {i \in (from + 1)..Len(ends) : ends[i] # 0}
  IN IF starts = {} THEN 0
     ELSE ends[CHOOSE i \in starts : \A j \in starts : i <= j]

\* content.split(/\s+/).filter(word => word.length > 2).length
MeaningfulWords(content) ==
  Cardinality({i \in 1..(Len(content) - MeaningfulWordLength) :
    /\ (i = 1 \/ content[i - 1] \in WhiteSpace)
    /\ \A k \in i..(i + MeaningfulWordLength) : content[k] \notin WhiteSpace})

Flag(b, issue) == IF b THEN <<issue>> ELSE <<>>

\* a severity that is high from two issues on
Severity_fromTwo(issues) ==
  IF Len(issues) >= HighSeverityIssues THEN "high"
  ELSE IF Len(issues) > 0 THEN "medium" ELSE "low"

\* issues.length > 2 ? 'high' : issues.length > 0 ? 'medium' : 'low'
Severity(issues) ==
  IF Len(issues) > HighSeverityIssues THEN "high"
  ELSE IF Len(issues) > 0 THEN "medium" ELSE "low"

\* SUSPICIOUS_PATTERNS.forEach(pattern => pattern.test(combinedText)): the
\* lastIndex each pattern is left with
SUSPICIOUS_PATTERNS(title, content, from) ==
  LET combinedText == toLowerCase(title \o <<" ">> \o content)
      at == DOMAIN combinedText
  IN [url |-> test([i \in at |-> UrlEnd(combinedText, i)], from.url),
      number |-> test([i \in at |-> LongNumberEnd(combinedText, i)], from.number),
      caps |-> test([i \in at |-> CapsEnd(combinedText, i)], from.caps)]

\* the verdict of a call that finds the patterns with the given lastIndex
moderateContent(title, content, from) ==
  LET combinedText == toLowerCase(title \o <<" ">> \o content)
      foundBannedWords == {w \in 1..Len(BANNED_WORDS) :
                             includes(combinedText, toLowerCase(BANNED_WORDS[w]))}
      tested == SUSPICIOUS_PATTERNS(title, content, from)
      issues ==
        Flag(foundBannedWords # {}, "Contains banned words")
        \o Flag(tested.url # 0, "Contains URLs")
        \o Flag(tested.number # 0, "Contains long numbers")
        \o Flag(tested.caps # 0, "Contains excessive capitalization")
        \o Flag(Len(content) < MinContentLength, "Content is too short")
        \o Flag(Len(content) > MaxContentLength, "Content is too long")
        \o Flag(MeaningfulWords(content) < MinMeaningfulWords,
                "Content appears to lack sufficient meaningful text")
  IN [approved |-> Len(issues) = 0,
      issues |-> issues,
      banned |-> foundBannedWords,
      severity |-> Severity(issues)]

\* .replace(/\r\n/g, '\n').replace(/\r/g, '\n')
RECURSIVE NormalizeBreaks(_)
NormalizeBreaks(s) ==
  IF s = <<>> THEN <<>>
  ELSE IF Head(s) = "\r"
  THEN <<"\n">> \o NormalizeBreaks(IF Len(s) > 1 /\ s[2] = "\n"
                                   THEN SubSeq(s, 3, Len(s)) ELSE Tail(s))
  ELSE <<Head(s)>> \o NormalizeBreaks(Tail(s))

\* the characters at the positions of a set, in order
RECURSIVE Keep(_, _)
Keep(s, positions) ==
  IF s = <<>> THEN <<>>
  ELSE Keep(SubSeq(s, 1, Len(s) - 1), positions)
       \o (IF Len(s) \in positions THEN <<s[Len(s)]>> ELSE <<>>)

\* a collapse that leaves a run of three line feeds alone
CollapseBreaks_fromFour(s) ==
  Keep(s, {i \in 1..Len(s) :
             ~(i > 3 /\ s[i] = "\n" /\ s[i - 1] = "\n" /\ s[i - 2] = "\n"
                     /\ s[i - 3] = "\n")})

\* .replace(/\n{3,}/g, '\n\n')
CollapseBreaks(s) ==
  Keep(s, {i \in 1..Len(s) :
             ~(i > 2 /\ s[i] = "\n" /\ s[i - 1] = "\n" /\ s[i - 2] = "\n")})

\* .trim()
trim(s) ==
  LET solid == {i \in 1..Len(s) : s[i] \notin WhiteSpace}
  IN IF solid = {} THEN <<>>
     ELSE SubSeq(s, CHOOSE i \in solid : \A j \in solid : i <= j,
                    CHOOSE i \in solid : \A j \in solid : j <= i)

\* a sanitizer that collapses the runs before it normalizes the breaks
sanitizeContent_collapseFirst(content) ==
  trim(NormalizeBreaks(CollapseBreaks(content)))

sanitizeContent(content) ==
  trim(CollapseBreaks(NormalizeBreaks(content)))

----------------------------------------------------------------------------
(* The forms a user may submit: formData.title, formData.content *)

Forms ==
  << [title |-> <<"E","x","a","m">>,
      content |-> <<"e","x","a","m"," ","h","a","l","l"," ","o","p","e","n">>],
     [title |-> <<"S","a","l","e">>,
      content |-> <<"v","i","s","i","t"," ","h","t","t","p",":","/","/",
                    "s","p","a","m",".","i","o">>],
     [title |-> <<"H","i">>,
      content |-> <<"h","i">>],
     [title |-> <<>>,
      content |-> <<"e","x","a","m"," ","h","a","l","l"," ","o","p","e","n">>],
     [title |-> <<"L","o","n","g">>,
      content |-> Repeat("a", MaxContentLength + 1)] >>

FormIds == 1..Len(Forms)

\* moderation useEffect: the verdict held in moderationResult for a form
NoResult == [approved |-> TRUE, issues |-> <<>>, banned |-> {}, severity |-> "none"]

ModerationResults ==
  [f \in FormIds |->
     IF Forms[f].title # <<>> \/ Forms[f].content # <<>>
     THEN moderateContent(Forms[f].title, Forms[f].content, AtRest)
     ELSE NoResult]

moderationResult(f) == ModerationResults[f]

\* <Input required> and <Textarea required> of the form
RequiredFilled(f) == Forms[f].title # <<>> /\ Forms[f].content # <<>>

----------------------------------------------------------------------------
(* Database: helpers, policies and triggers *)

has_role(u, r) == u \in DOMAIN user_roles /\ r \in user_roles[u]

RoleIndex(r) == CASE r = "admin" -> 1 [] r = "staff" -> 2 [] OTHER -> 3
UserIndex(u) == CHOOSE i \in 1..Len(AllUsers) : AllUsers[i] = u

\* stands for the generated primary key of a user_roles row
UserRoleRowId(u, r) == 100 + 10 * UserIndex(u) + RoleIndex(r)

\* an INSERT check that admits every authenticated identity
NoticeInsertPolicy_authenticated(u) == u \in profiles

\* policy "Staff can create notices" (INSERT WITH CHECK)
NoticeInsertPolicy(u) == has_role(u, "staff") \/ has_role(u, "admin")

\* policy "Authors can update own notices" (UPDATE USING)
NoticeUpdatePolicy(u, row) == row.author_id = u \/ has_role(u, "admin")

\* policy "Admins can delete notices" (DELETE USING)
NoticeDeletePolicy(u) == has_role(u, "admin")

\* policy "Students can view approved notices" after the publish_at migration
NoticeSelectPolicy(u, row) ==
  /\ row.status = "approved"
  /\ (row.publish_at = NoTime \/ row.publish_at <= now)
  /\ (row.author_id = u \/ has_role(u, "admin"))

\* a role policy that admits every authenticated identity
RolesManagePolicy_authenticated(u) == u \in profiles

\* policy "Admins can manage roles" (FOR ALL USING, also the INSERT check)
RolesManagePolicy(u) == has_role(u, "admin")

\* policy "Admins can view all audit logs"
AuditSelectPolicy(u) == has_role(u, "admin")

log_audit_event(log, p_user_id, p_action, p_entity_type, p_entity_id, p_old_values, p_new_values) ==
  Append(log, [user_id |-> p_user_id, action |-> p_action,
               entity_type |-> p_entity_type, entity_id |-> p_entity_id,
               old_values |-> p_old_values, new_values |-> p_new_values])

COALESCE(a, b) == IF a # NoUser THEN a ELSE b

StatusAction(status) ==
  CASE status = "approved" -> "approve"
    [] status = "rejected" -> "reject"
    [] OTHER -> "update"

\* audit_notice_changes, one branch per TG_OP
audit_notice_insert(log, id, new) ==
  log_audit_event(log, new.author_id, "create", "notice", id, "null", new.status)

audit_notice_update(log, id, old, new) ==
  IF old.status # new.status
  THEN log_audit_event(log, COALESCE(new.approved_by, new.author_id),
                       StatusAction(new.status), "notice", id,
                       old.status, new.status)
  ELSE log_audit_event(log, new.author_id, "update", "notice", id,
                       old.status, new.status)

\* a delete that takes the notice's earlier events with it
audit_notice_delete_purge(log, id, old) ==
  log_audit_event(SelectSeq(log, LAMBDA e : ~(e.entity_type = "notice" /\ e.entity_id = id)),
                  old.author_id, "delete", "notice", id, old.status, "null")

audit_notice_delete(log, id, old) ==
  log_audit_event(log, old.author_id, "delete", "notice", id, old.status, "null")

\* audit_user_role_changes, one branch per TG_OP
audit_role_insert(log, u, r) ==
  log_audit_event(log, u, "assign_role", "user_role", UserRoleRowId(u, r), "null", r)

audit_role_delete(log, u, r) ==
  log_audit_event(log, u, "remove_role", "user_role", UserRoleRowId(u, r), r, "null")

----------------------------------------------------------------------------
(* State *)

\* the outcome of the latest operation, as its caller sees it
Outcome(op, caller, notice, pre, result, fault, list) ==
  [op |-> op, caller |-> caller, notice |-> notice, pre |-> pre,
   result |-> result, fault |-> fault, list |-> list, form |-> 0]

Submitted(c, f, notice, result, fault) ==
  [Outcome("create", c, notice, "none", result, fault, {}) EXCEPT !.form = f]

Exists(n) == n \in DOMAIN notices

\* what the dialog holds: whether it is open, the form entered and the
\* number of uploaded attachments
Dialog(open, f, attachments) == [open |-> open, form |-> f, attachments |-> attachments]

\* useState of CreateNoticeDialog, closed; no attachment is stored
InitCreate ==
  /\ notice_attachments = <<>>
  /\ dialog = Dialog(FALSE, 0, 0)

\* the realtime channels the pages open
ChannelNames == {"notices-changes-admin", "public-notices", "notice-notifications"}

\* no page has subscribed and no select is on its way
InitChannels ==
  /\ cursor = [ch \in ChannelNames |-> 0]
  /\ inflight = <<>>
  /\ pendingNotices = {}
  /\ called = {}

\* useState of CreateNoticeDialog
InitForm ==
  /\ formData = [title |-> <<>>, content |-> <<>>]
  /\ formModeration = NoResult
  /\ typed = <<>>
  /\ lastIndex = AtRest
  /\ InitCreate
  /\ InitChannels

\* nobody is signed in and no page is mounted
InitClient ==
  /\ user = NoUser
  /\ userRole = NoRole
  /\ loading = TRUE
  /\ lookups = <<>>
  /\ signups = {}
  /\ page = "none"
  /\ noticeList = {}
  /\ listLoading = TRUE
  /\ selecting = 0
  /\ tracking = <<>>
  /\ viewed_notices = <<>>
  /\ notice_views = <<>>
  /\ fetches = 0

\* the database after the migrations
InitBoard ==
  /\ profiles = {}
  /\ user_roles = [u \in Users |-> {}]
  /\ notices = <<>>
  /\ nextId = 1
  /\ audit_logs = <<>>
  /\ now = 0
  /\ roleOp = {}
  /\ last = Outcome("init", NoUser, NoNotice, "none", "none", FALSE, {})

Init ==
  /\ InitBoard
  /\ InitClient
  /\ InitForm

----------------------------------------------------------------------------
(* Sign-up: trigger on_auth_user_created *)

\* the role handle_new_user gives the new identity
handle_new_user(user_count, metaRole) ==
  IF user_count = 1 THEN "admin"
  ELSE IF metaRole # NoRole THEN metaRole ELSE "student"

SignUp(metaRole, auditOk) ==
  /\ Cardinality(profiles) < NumUsers
  /\ Len(audit_logs) < MaxAudit
  /\ LET u == AllUsers[Cardinality(profiles) + 1]
         user_role == handle_new_user(Cardinality(profiles) + 1, metaRole)
     IN IF auditOk
        THEN /\ profiles' = profiles \cup {u}
             /\ user_roles' = [user_roles EXCEPT ![u] = {user_role}]
             /\ audit_logs' = audit_role_insert(audit_logs, u, user_role)
             /\ last' = Outcome("signUp", u, NoNotice, "none", "ok", FALSE, {})
        ELSE /\ UNCHANGED <<profiles, user_roles, audit_logs>>
             /\ last' = Outcome("signUp", u, NoNotice, "none", "error", TRUE, {})
  /\ UNCHANGED <<notices, nextId, now, roleOp>>
  /\ UNCHANGED <<authVars, viewVars, signups, formVars, createVars, rtVars>>

----------------------------------------------------------------------------
(* CreateNoticeDialog.handleSubmit *)

\* a status that publishes what the screener passes
InitialStatus_autoApprove(m) == IF m # NoResult /\ ~m.approved THEN "pending" ELSE "approved"

\* noticeData.status
InitialStatus(m) == IF m # NoResult /\ ~m.approved THEN "pending" ELSE "pending"

noticeData(c, f, publish_at) ==
  [form |-> f, author_id |-> c, status |-> InitialStatus(moderationResult(f)),
   approved_by |-> NoUser, approved_at |-> NoTime, publish_at |-> publish_at]

\* what a user may enter: a form and formData.publish_at
SubmitInputs ==
  {<<f, NoTime>> : f \in FormIds} \cup {<<1, t>> : t \in 1..MaxTime}

\* rows of notice_attachments of a notice
AttachmentsOf(n) == IF n \in DOMAIN notice_attachments THEN notice_attachments[n] ELSE 0

\* a catch block that deletes the notice whose attachments were refused
catchAttachmentError_delete(table, id) == [n \in DOMAIN table \ {id} |-> table[n]]

\* catch (error) after attachmentError was thrown: a toast, the notices
\* table is left as the insert made it
catchAttachmentError(table, id) == table

handleSubmit(c, f, publish_at, attachments, auditOk, attachmentOk) ==
  /\ c \in profiles
  /\ nextId <= MaxNotices
  /\ Len(audit_logs) < MaxAudit
  /\ LET row == noticeData(c, f, publish_at)
         inserted == [n \in DOMAIN notices \cup {nextId} |->
                        IF n = nextId THEN row ELSE notices[n]]
     IN
       IF ~RequiredFilled(f)
       THEN /\ UNCHANGED <<notices, nextId, audit_logs, notice_attachments>>
            /\ dialog' = Dialog(TRUE, f, attachments)
            /\ last' = Submitted(c, f, NoNotice, "blocked", FALSE)
       ELSE IF ~NoticeInsertPolicy(c)
       THEN /\ UNCHANGED <<notices, nextId, audit_logs, notice_attachments>>
            /\ dialog' = Dialog(TRUE, f, attachments)
            /\ last' = Submitted(c, f, NoNotice, "error", FALSE)
       ELSE IF ~auditOk
       THEN /\ UNCHANGED <<notices, nextId, audit_logs, notice_attachments>>
            /\ dialog' = Dialog(TRUE, f, attachments)
            /\ last' = Submitted(c, f, NoNotice, "error", TRUE)
       ELSE IF attachments > 0 /\ ~attachmentOk
       THEN /\ notices' = catchAttachmentError(inserted, nextId)
            /\ nextId' = nextId + 1
            /\ audit_logs' = audit_notice_insert(audit_logs, nextId, row)
            /\ UNCHANGED notice_attachments
            /\ dialog' = Dialog(TRUE, f, attachments)
            /\ last' = Submitted(c, f, nextId, "error", TRUE)
       ELSE /\ notices' = inserted
            /\ nextId' = nextId + 1
            /\ audit_logs' = audit_notice_insert(audit_logs, nextId, row)
            /\ notice_attachments' =
                 IF attachments > 0
                 THEN [n \in DOMAIN notice_attachments \cup {nextId} |->
                         IF n = nextId THEN attachments ELSE notice_attachments[n]]
                 ELSE notice_attachments
            /\ dialog' = Dialog(FALSE, 0, 0)
            /\ last' = Submitted(c, f, nextId, "ok", FALSE)
  /\ UNCHANGED <<profiles, user_roles, now, roleOp>>
  /\ UNCHANGED <<authVars, viewVars, signups, formVars, rtVars>>

----------------------------------------------------------------------------
(* NoticeCard.handleApprove / handleReject / handleDelete *)

\* .update({ status: "approved", approved_at: new Date().toISOString() })
ApproveUpdate(row, c) == [row EXCEPT !.status = "approved", !.approved_at = now]

\* .update({ status: "rejected" })
RejectUpdate(row, c) == [row EXCEPT !.status = "rejected"]

StatusOf(n) == IF Exists(n) THEN notices[n].status ELSE "none"

\* UPDATE notices SET ... WHERE id = n, sent by c
UpdateNotice(op, c, n, new, auditOk) ==
  IF ~Exists(n) \/ ~NoticeUpdatePolicy(c, notices[n])
  THEN /\ UNCHANGED <<notices, audit_logs>>
       /\ last' = Outcome(op, c, n, StatusOf(n), "ok", FALSE, {})
  ELSE IF ~auditOk
  THEN /\ UNCHANGED <<notices, audit_logs>>
       /\ last' = Outcome(op, c, n, StatusOf(n), "error", TRUE, {})
  ELSE /\ notices' = [notices EXCEPT ![n] = new]
       /\ audit_logs' = audit_notice_update(audit_logs, n, notices[n], new)
       /\ last' = Outcome(op, c, n, StatusOf(n), "ok", FALSE, {})

handleApprove(c, n, auditOk) ==
  /\ c \in profiles
  /\ n \in 1..(nextId - 1)
  /\ Len(audit_logs) < MaxAudit
  /\ UpdateNotice("approve", c, n,
                  IF Exists(n) THEN ApproveUpdate(notices[n], c) ELSE <<>>, auditOk)
  /\ UNCHANGED <<profiles, user_roles, nextId, now, roleOp>>
  /\ UNCHANGED <<authVars, viewVars, signups, formVars, createVars, rtVars>>

handleReject(c, n, auditOk) ==
  /\ c \in profiles
  /\ n \in 1..(nextId - 1)
  /\ Len(audit_logs) < MaxAudit
  /\ UpdateNotice("reject", c, n,
                  IF Exists(n) THEN RejectUpdate(notices[n], c) ELSE <<>>, auditOk)
  /\ UNCHANGED <<profiles, user_roles, nextId, now, roleOp>>
  /\ UNCHANGED <<authVars, viewVars, signups, formVars, createVars, rtVars>>

handleDelete(c, n, auditOk) ==
  /\ c \in profiles
  /\ n \in 1..(nextId - 1)
  /\ Len(audit_logs) < MaxAudit
  /\ IF ~Exists(n) \/ ~NoticeDeletePolicy(c)
     THEN /\ UNCHANGED <<notices, audit_logs, notice_views, notice_attachments>>
          /\ last' = Outcome("delete", c, n, StatusOf(n), "ok", FALSE, {})
     ELSE IF ~auditOk
     THEN /\ UNCHANGED <<notices, audit_logs, notice_views, notice_attachments>>
          /\ last' = Outcome("delete", c, n, StatusOf(n), "error", TRUE, {})
     ELSE /\ notices' = [m \in DOMAIN notices \ {n} |-> notices[m]]
          \* notice_views.notice_id REFERENCES notices(id) ON DELETE CASCADE
          /\ notice_views' = SelectSeq(notice_views, LAMBDA v : v.notice_id # n)
          \* notice_attachments.notice_id REFERENCES notices(id) ON DELETE CASCADE
          /\ notice_attachments' =
               [m \in DOMAIN notice_attachments \ {n} |-> notice_attachments[m]]
          /\ audit_logs' = audit_notice_delete(audit_logs, n, notices[n])
          /\ last' = Outcome("delete", c, n, StatusOf(n), "ok", FALSE, {})
  /\ UNCHANGED <<profiles, user_roles, nextId, now, roleOp>>
  /\ UNCHANGED <<formVars, dialog, rtVars, signups, authVars, page, noticeList, listLoading, selecting, tracking,
               viewed_notices, fetches>>

----------------------------------------------------------------------------
(* ManageRolesDialog.handleUpdateRole: two requests, delete then insert *)

SeqsOf(S) == {q \in [1..Cardinality(S) -> S] : {q[i] : i \in DOMAIN q} = S}

RECURSIVE audit_role_deletes(_, _, _)
audit_role_deletes(log, u, order) ==
  IF order = <<>> THEN log
  ELSE audit_role_deletes(audit_role_delete(log, u, Head(order)), u, Tail(order))

\* await supabase.from("user_roles").delete().eq("user_id", selectedUser);
\* the answer is not looked at
handleUpdateRole_delete(c, target, role, auditOk) ==
  /\ c \in profiles
  /\ target \in profiles
  /\ \A op \in roleOp : op.caller # c
  /\ Cardinality(roleOp) < MaxRoleOps
  /\ Len(audit_logs) + Cardinality(user_roles[target]) <= MaxAudit
  /\ roleOp' = roleOp \cup {[caller |-> c, target |-> target, role |-> role]}
  /\ IF ~RolesManagePolicy(c) \/ user_roles[target] = {}
     THEN /\ UNCHANGED <<user_roles, audit_logs>>
          /\ last' = Outcome("roleDelete", c, NoNotice, "none", "ignored", FALSE, {})
     ELSE IF ~auditOk
     THEN /\ UNCHANGED <<user_roles, audit_logs>>
          /\ last' = Outcome("roleDelete", c, NoNotice, "none", "ignored", TRUE, {})
     ELSE /\ user_roles' = [user_roles EXCEPT ![target] = {}]
          /\ \E order \in SeqsOf(user_roles[target]) :
               audit_logs' = audit_role_deletes(audit_logs, target, order)
          /\ last' = Outcome("roleDelete", c, NoNotice, "none", "ignored", FALSE, {})
  /\ UNCHANGED <<profiles, notices, nextId, now>>
  /\ UNCHANGED <<authVars, viewVars, signups, formVars, createVars, rtVars>>

\* const { error } = await supabase.from("user_roles").insert([...]);
handleUpdateRole_insert(c, auditOk) ==
  /\ \E op \in roleOp : op.caller = c
  /\ Len(audit_logs) < MaxAudit
  /\ roleOp' = {op \in roleOp : op.caller # c}
  /\ LET mine == CHOOSE op \in roleOp : op.caller = c
         target == mine.target
         role == mine.role
     IN IF ~RolesManagePolicy(c) \/ role \in user_roles[target]
        THEN /\ UNCHANGED <<user_roles, audit_logs>>
             /\ last' = Outcome("roleInsert", c, NoNotice, "none", "error", FALSE, {})
        ELSE IF ~auditOk
        THEN /\ UNCHANGED <<user_roles, audit_logs>>
             /\ last' = Outcome("roleInsert", c, NoNotice, "none", "error", TRUE, {})
        ELSE /\ user_roles' = [user_roles EXCEPT ![target] = @ \cup {role}]
             /\ audit_logs' = audit_role_insert(audit_logs, target, role)
             /\ last' = Outcome("roleInsert", c, NoNotice, "none", "ok", FALSE, {})
  /\ UNCHANGED <<profiles, notices, nextId, now>>
  /\ UNCHANGED <<authVars, viewVars, signups, formVars, createVars, rtVars>>

----------------------------------------------------------------------------
(* Reads *)

\* StudentDashboard.fetchNotices: the query's filter and the SELECT policy
fetchNotices(c) ==
  /\ c \in profiles
  /\ last' = Outcome("fetchNotices", c, NoNotice, "none", "ok", FALSE,
                     {n \in DOMAIN notices :
                        /\ notices[n].status = "approved"
                        /\ (notices[n].publish_at = NoTime \/ notices[n].publish_at <= now)
                        /\ NoticeSelectPolicy(c, notices[n])})
  /\ UNCHANGED <<profiles, user_roles, notices, nextId, audit_logs, now, roleOp>>
  /\ UNCHANGED <<authVars, viewVars, signups, formVars, createVars, rtVars>>

Min(a, b) == IF a < b THEN a ELSE b

\* AuditLogsViewer.fetchAuditLogs: newest first, at most 1000 rows;
\* list holds the positions of the rows returned
fetchAuditLogs(c) ==
  /\ c \in profiles
  /\ last' = Outcome("fetchAuditLogs", c, NoNotice, "none", "ok", FALSE,
                     IF AuditSelectPolicy(c)
                     THEN {i \in 1..Len(audit_logs) :
                             i > Len(audit_logs) - Min(Len(audit_logs), AuditLogLimit)}
                     ELSE {})
  /\ UNCHANGED <<profiles, user_roles, notices, nextId, audit_logs, now, roleOp>>
  /\ UNCHANGED <<authVars, viewVars, signups, formVars, createVars, rtVars>>

\* AuditLogsViewer.exportLogs: writes the rows held since the fetch to a file
exportLogs(c) ==
  /\ last.op = "fetchAuditLogs"
  /\ last.caller = c
  /\ last' = [last EXCEPT !.op = "exportLogs"]
  /\ UNCHANGED <<profiles, user_roles, notices, nextId, audit_logs, now, roleOp>>
  /\ UNCHANGED <<authVars, viewVars, signups, formVars, createVars, rtVars>>

----------------------------------------------------------------------------
(* The notice list of StudentDashboard and PublicNotices, and its view      *)
(* tracking                                                                  *)

Pages == {"StudentDashboard", "PublicNotices"}

Range(q) == {q[i] : i \in DOMAIN q}

Max(S) == CHOOSE m \in S : \A x \in S : x <= m

\* .order("created_at", { ascending: false })
RECURSIVE Descending(_)
Descending(S) ==
  IF S = {} THEN <<>> ELSE <<Max(S)>> \o Descending(S \ {Max(S)})

\* the rows the select of fetchNotices returns to u: the query's filter and
\* the SELECT policy (TO authenticated)
VisibleNotices(u) ==
  {n \in DOMAIN notices :
     /\ notices[n].status = "approved"
     /\ (notices[n].publish_at = NoTime \/ notices[n].publish_at <= now)
     /\ NoticeSelectPolicy(u, notices[n])}

\* user_id of the rows a page builds: user.id on the dashboard, null on the
\* public page
ViewUserId(pg, u) == IF pg = "StudentDashboard" THEN u ELSE NoUser

\* a view row for every notice of the list, seen or not
NewViews_all(data, viewedIds, pg, u) ==
  [i \in 1..Len(data) |-> [notice_id |-> data[i], user_id |-> ViewUserId(pg, u)]]

\* notices.filter(notice => !viewedIds.includes(notice.id)).map(...)
NewViews(data, viewedIds, pg, u) ==
  LET fresh == SelectSeq(data, LAMBDA n : n \notin Range(viewedIds))
  IN [i \in 1..Len(fresh) |-> [notice_id |-> fresh[i], user_id |-> ViewUserId(pg, u)]]

\* policy "Users can create views" (INSERT WITH CHECK, TO authenticated)
ViewInsertPolicy(u, row) == u # NoUser /\ row.user_id = u

\* the INSERT of newViews is one statement: every row passes the policy and
\* the foreign key on notice_id, or none is stored
InsertAccepted(u, rows) ==
  \A i \in DOMAIN rows :
    /\ ViewInsertPolicy(u, rows[i])
    /\ rows[i].notice_id \in DOMAIN notices

\* the ids marked as seen whatever the insert answered
UpdatedViewedIds_always(call, stored) ==
  call.viewedIds \o [i \in 1..Len(call.newViews) |-> call.newViews[i].notice_id]

\* [...viewedIds, ...newViews.map(v => v.notice_id)], written if (!error)
UpdatedViewedIds(call, stored) ==
  IF stored
  THEN call.viewedIds \o [i \in 1..Len(call.newViews) |-> call.newViews[i].notice_id]
  ELSE viewed_notices

\* setLoading(true) and the select is sent: the first load of the page or a
\* realtime callback
fetchNotices_start ==
  /\ page \in Pages
  /\ fetches < MaxFetches
  /\ fetches' = fetches + 1
  /\ listLoading' = TRUE
  /\ selecting' = selecting + 1
  /\ last' = Outcome("fetchStart", user, NoNotice, "none", "none", FALSE, {})
  /\ UNCHANGED <<profiles, user_roles, notices, nextId, audit_logs, now, roleOp>>
  /\ UNCHANGED <<formVars, createVars, rtVars, signups, authVars, page, noticeList, tracking, viewed_notices, notice_views>>

\* the select answers: setNotices(data), then trackNoticeViews(data) runs up
\* to its insert request without being awaited, then setLoading(false)
fetchNotices_response(selectOk) ==
  /\ selecting > 0
  /\ selecting' = selecting - 1
  /\ listLoading' = FALSE
  /\ IF ~selectOk
     THEN /\ UNCHANGED <<noticeList, tracking>>
          /\ last' = Outcome("fetchResponse", user, NoNotice, "none", "logged", TRUE, {})
     ELSE LET data == Descending(VisibleNotices(user))
              viewedIds == viewed_notices
              newViews == NewViews(data, viewedIds, page, user)
          IN /\ noticeList' = Range(data)
             /\ tracking' =
                  IF Len(data) > 0 /\ Len(newViews) > 0
                  THEN Append(tracking, [notices |-> data, viewedIds |-> viewedIds,
                                         newViews |-> newViews])
                  ELSE tracking
             /\ last' = Outcome("fetchResponse", user, NoNotice, "none", "ok", FALSE,
                                Range(data))
  /\ UNCHANGED <<profiles, user_roles, notices, nextId, audit_logs, now, roleOp>>
  /\ UNCHANGED <<formVars, createVars, rtVars, signups, authVars, page, viewed_notices, notice_views, fetches>>

\* the insert of a trackNoticeViews call answers: answer is "ok" when the
\* request reaches the database, "error" for an error returned and
\* "exception" for a rejected promise
trackNoticeViews_response(i, answer) ==
  /\ i \in DOMAIN tracking
  /\ LET call == tracking[i]
         stored == answer = "ok" /\ InsertAccepted(user, call.newViews)
     IN /\ tracking' = SubSeq(tracking, 1, i - 1) \o SubSeq(tracking, i + 1, Len(tracking))
        /\ notice_views' = IF stored THEN notice_views \o call.newViews ELSE notice_views
        /\ viewed_notices' = UpdatedViewedIds(call, stored)
        /\ last' = Outcome("trackNoticeViews", user, NoNotice, "none",
                           IF stored THEN "ok"
                           ELSE IF answer = "exception" THEN "logged" ELSE "ignored",
                           ~stored, Range(call.notices))
  /\ UNCHANGED <<profiles, user_roles, notices, nextId, audit_logs, now, roleOp>>
  /\ UNCHANGED <<formVars, createVars, rtVars, signups, authVars, page, noticeList, listLoading, selecting, fetches>>

\* time passes
Tick ==
  /\ now < MaxTime
  /\ now' = now + 1
  /\ last' = Outcome("tick", NoUser, NoNotice, "none", "none", FALSE, {})
  /\ UNCHANGED <<profiles, user_roles, notices, nextId, audit_logs, roleOp>>
  /\ UNCHANGED <<authVars, viewVars, signups, formVars, createVars, rtVars>>

----------------------------------------------------------------------------
(* Realtime: the pages subscribe to the row changes of notices and fetch    *)
(* their lists again on every notification. A select is sent, answered by   *)
(* the database, and its answer resolved by the page, as three steps        *)

\* the row changes of notices in commit order: audit_notice_changes is an
\* AFTER INSERT OR UPDATE OR DELETE row trigger, so every committed change of
\* a notices row has one event in audit_logs
NoticeEvents == SelectSeq(audit_logs, LAMBDA e : e.entity_type = "notice")

\* TG_OP of the change an event was logged for
EventType(e) ==
  CASE e.action = "create" -> "INSERT"
    [] e.action = "delete" -> "DELETE"
    [] OTHER -> "UPDATE"

\* the channels a page subscribes to in its useEffect
Channels(pg) ==
  IF pg = "AdminDashboard" THEN {"notices-changes-admin"}
  ELSE IF pg = "PublicNotices" THEN {"public-notices", "notice-notifications"}
  ELSE {}

\* event and filter of a channel: '*' on the page channels, INSERT with
\* status=eq.approved on the channel of subscribeToNotices
Matches(ch, e) ==
  IF ch = "notice-notifications"
  THEN EventType(e) = "INSERT" /\ e.new_values = "approved"
  ELSE TRUE

\* the first select of fetchNotices on a page
FirstQuery(pg) == IF pg = "AdminDashboard" THEN "pending" ELSE "published"

Sent(query) == [query |-> query, answered |-> FALSE, data |-> {}]

\* the rows a select of fetchNotices returns to u
QueryResult(query, u) ==
  CASE query = "pending" ->
         {n \in DOMAIN notices :
            notices[n].status = "pending" /\ NoticeSelectPolicy(u, notices[n])}
    [] query = "all" ->
         {n \in DOMAIN notices : NoticeSelectPolicy(u, notices[n])}
    [] OTHER -> VisibleNotices(u)

\* a channel delivers its next row change; when the change passes the
\* channel's filter the callback runs: fetchNotices sets loading and sends
\* its first select, and the callback of subscribeToNotices has been
\* invoked for the notice
postgres_changes(ch) ==
  /\ ch \in Channels(page)
  /\ cursor[ch] < Len(NoticeEvents)
  /\ LET e == NoticeEvents[cursor[ch] + 1] IN
       IF Matches(ch, e)
       THEN /\ Len(inflight) < MaxInflight
            /\ inflight' = Append(inflight, Sent(FirstQuery(page)))
            /\ listLoading' = TRUE
            /\ called' = IF ch = "notice-notifications"
                         THEN called \cup {e.entity_id} ELSE called
       ELSE UNCHANGED <<inflight, listLoading, called>>
  /\ cursor' = [cursor EXCEPT ![ch] = cursor[ch] + 1]
  /\ last' = Outcome("postgres_changes", user, NoNotice, "none", "none", FALSE, {})
  /\ UNCHANGED <<profiles, user_roles, notices, nextId, audit_logs, now, roleOp>>
  /\ UNCHANGED <<formVars, createVars, signups, authVars, pendingNotices>>
  /\ UNCHANGED <<page, noticeList, selecting, tracking, viewed_notices, notice_views, fetches>>

\* the database answers a select with the rows it holds at that moment
select_notices(i) ==
  /\ i \in DOMAIN inflight
  /\ ~inflight[i].answered
  /\ inflight' = [inflight EXCEPT ![i] =
                    [query |-> inflight[i].query, answered |-> TRUE,
                     data |-> QueryResult(inflight[i].query, user)]]
  /\ last' = Outcome("select", user, NoNotice, "none", "none", FALSE, {})
  /\ UNCHANGED <<profiles, user_roles, notices, nextId, audit_logs, now, roleOp>>
  /\ UNCHANGED <<formVars, createVars, signups, authVars, viewVars>>
  /\ UNCHANGED <<cursor, pendingNotices, called>>

\* the await of a select resumes. AdminDashboard: setPendingNotices and the
\* second select is sent, then setAllNotices and setLoading(false).
\* PublicNotices: setNotices, trackNoticeViews up to its insert request,
\* setLoading(false)
fetchNotices_resume(i) ==
  /\ i \in DOMAIN inflight
  /\ inflight[i].answered
  /\ LET data == inflight[i].data
         rest == SubSeq(inflight, 1, i - 1) \o SubSeq(inflight, i + 1, Len(inflight))
         ordered == Descending(data)
         newViews == NewViews(ordered, viewed_notices, page, user)
     IN CASE inflight[i].query = "pending" ->
               /\ pendingNotices' = data
               /\ inflight' = [inflight EXCEPT ![i] = Sent("all")]
               /\ UNCHANGED <<noticeList, listLoading, tracking>>
          [] inflight[i].query = "all" ->
               /\ noticeList' = data
               /\ inflight' = rest
               /\ listLoading' = FALSE
               /\ UNCHANGED <<pendingNotices, tracking>>
          [] OTHER ->
               /\ noticeList' = data
               /\ inflight' = rest
               /\ listLoading' = FALSE
               /\ tracking' =
                    IF Len(ordered) > 0 /\ Len(newViews) > 0
                    THEN Append(tracking, [notices |-> ordered,
                                           viewedIds |-> viewed_notices,
                                           newViews |-> newViews])
                    ELSE tracking
               /\ UNCHANGED pendingNotices
  /\ last' = Outcome("fetchResume", user, NoNotice, "none", "ok", FALSE, inflight[i].data)
  /\ UNCHANGED <<profiles, user_roles, notices, nextId, audit_logs, now, roleOp>>
  /\ UNCHANGED <<formVars, createVars, signups, authVars>>
  /\ UNCHANGED <<page, selecting, viewed_notices, notice_views, fetches, cursor, called>>

----------------------------------------------------------------------------

\* the notice lifecycle: sign-up, create, approve, reject, delete, the
\* student's list and the clock
Next ==
  \/ \E metaRole \in Roles \cup {NoRole}, auditOk \in BOOLEAN : SignUp(metaRole, auditOk)
  \/ \E c \in Users, in \in SubmitInputs, auditOk \in BOOLEAN :
       handleSubmit(c, in[1], in[2], 0, auditOk, TRUE)
  \/ \E c \in Users, n \in NoticeIds, auditOk \in BOOLEAN : handleApprove(c, n, auditOk)
  \/ \E c \in Users, n \in NoticeIds, auditOk \in BOOLEAN : handleReject(c, n, auditOk)
  \/ \E c \in Users, n \in NoticeIds, auditOk \in BOOLEAN : handleDelete(c, n, auditOk)
  \/ \E c \in Users : fetchNotices(c)
  \/ Tick

Spec == Init /\ [][Next]_vars

\* notices created with uploaded attachments, whose insert may fail, and
\* deleted with them
NextCreate ==
  \/ \E metaRole \in {"staff", NoRole} : SignUp(metaRole, TRUE)
  \/ \E c \in Users, f \in {1, 3}, attachments \in 0..MaxAttachments :
       \E auditOk \in BOOLEAN, attachmentOk \in BOOLEAN :
         handleSubmit(c, f, NoTime, attachments, auditOk, attachmentOk)
  \/ \E c \in Users, n \in NoticeIds : handleDelete(c, n, TRUE)

SpecCreate == Init /\ [][NextCreate]_vars

\* every operation that reaches the audit log, role changes included; the
\* sign-ups carry no role metadata and one form is submitted
NextAudit ==
  \/ \E auditOk \in BOOLEAN : SignUp(NoRole, auditOk)
  \/ \E c \in Users, auditOk \in BOOLEAN : handleSubmit(c, 1, NoTime, 0, auditOk, TRUE)
  \/ \E c \in Users, n \in NoticeIds, auditOk \in BOOLEAN : handleApprove(c, n, auditOk)
  \/ \E c \in Users, n \in NoticeIds, auditOk \in BOOLEAN : handleReject(c, n, auditOk)
  \/ \E c \in Users, n \in NoticeIds, auditOk \in BOOLEAN : handleDelete(c, n, auditOk)
  \/ \E c \in Users, t \in Users, r \in Roles, auditOk \in BOOLEAN :
       handleUpdateRole_delete(c, t, r, auditOk)
  \/ \E c \in Users, auditOk \in BOOLEAN : handleUpdateRole_insert(c, auditOk)
  \/ \E c \in Users : fetchAuditLogs(c)
  \/ \E c \in Users : exportLogs(c)

SpecAudit == Init /\ [][NextAudit]_vars

----------------------------------------------------------------------------
(* The fields of CreateNoticeDialog: what is typed or pasted into them, the *)
(* sanitizer on the content field and the moderation effect                 *)

\* pieces of text a user types or pastes
Chunks ==
  << <<"e", "x", "a", "m", " ", "h", "a", "l", "l", " ", "o", "p", "e", "n">>,
     <<"S", "p", "A", "m">>,
     <<"O", "F", "F", "E", "N", "S", "I", "V", "E">>,
     <<"h", "t", "t", "p", ":", "/", "/", "x", ".", "i", "o">>,
     <<"0", "1", "2", "3", "4", "5", "6", "7", "8", "9">>,
     <<" ">>,
     <<"\n">>,
     <<"\r">>,
     <<"\r", "\n">>,
     <<"\r", "\r", "\r", "a", "b">>,
     <<"a", "b">> >>

RECURSIVE Concat(_)
Concat(pieces) ==
  IF pieces = <<>> THEN <<>> ELSE Head(pieces) \o Concat(Tail(pieces))

\* the values the content field can be given: up to MaxChunks pieces
TypedValues ==
  {Concat([i \in DOMAIN picks |-> Chunks[picks[i]]]) :
     picks \in UNION {[1..n -> 1..Len(Chunks)] : n \in 0..MaxChunks}}

\* the values the title field is given
TitleValues == {<<>>, <<"E", "x", "a", "m">>, <<"s", "P", "a", "M">>}

\* useEffect on [formData.title, formData.content]: it runs when the title
\* or the content has changed
ModerationEffect(title, content) ==
  IF title = formData.title /\ content = formData.content
  THEN UNCHANGED <<formModeration, lastIndex>>
  ELSE IF title # <<>> \/ content # <<>>
  THEN /\ formModeration' = moderateContent(title, content, lastIndex)
       /\ lastIndex' = SUSPICIOUS_PATTERNS(title, content, lastIndex)
  ELSE /\ formModeration' = NoResult
       /\ UNCHANGED lastIndex

\* onChange of the title input
changeTitle(value) ==
  /\ formData' = [formData EXCEPT !.title = value]
  /\ ModerationEffect(value, formData.content)
  /\ UNCHANGED typed
  /\ UNCHANGED <<profiles, user_roles, notices, nextId, audit_logs, now, roleOp, last>>
  /\ UNCHANGED <<authVars, viewVars, signups, createVars, rtVars>>

\* onChange of the content textarea, e.target.value being typed
changeContent ==
  /\ formData' = [formData EXCEPT !.content = sanitizeContent(typed)]
  /\ ModerationEffect(formData.title, sanitizeContent(typed))
  /\ UNCHANGED typed
  /\ UNCHANGED <<profiles, user_roles, notices, nextId, audit_logs, now, roleOp, last>>
  /\ UNCHANGED <<authVars, viewVars, signups, createVars, rtVars>>

\* the dialog opens empty; the user has some text to enter as content
InitTyping ==
  /\ InitBoard
  /\ InitClient
  /\ formData = [title |-> <<>>, content |-> <<>>]
  /\ formModeration = NoResult
  /\ typed \in TypedValues
  /\ lastIndex = AtRest
  /\ InitCreate
  /\ InitChannels

NextForm ==
  \/ \E value \in TitleValues : changeTitle(value)
  \/ changeContent

SpecForm == InitTyping /\ [][NextForm]_vars

----------------------------------------------------------------------------
(* Sign-up as a transaction: the trigger's statements run inside the        *)
(* transaction that inserts the auth.users row and see, besides their own   *)
(* writes, only what other transactions have committed                      *)

InSignUp == {t.user : t \in signups}

\* the new identity: the first name not in use
NewUser ==
  AllUsers[CHOOSE i \in 1..NumUsers :
             /\ AllUsers[i] \notin profiles \cup InSignUp
             /\ \A j \in 1..(i - 1) : AllUsers[j] \in profiles \cup InSignUp]

\* INSERT INTO profiles; SELECT COUNT(*) INTO user_count FROM profiles
signUp_begin(metaRole) ==
  /\ Cardinality(profiles \cup InSignUp) < NumUsers
  /\ signups' = signups \cup {[user |-> NewUser, metaRole |-> metaRole,
                               user_count |-> Cardinality(profiles) + 1]}
  /\ last' = Outcome("signUpBegin", NewUser, NoNotice, "none", "none", FALSE, {})
  /\ UNCHANGED <<profiles, user_roles, notices, nextId, audit_logs, now, roleOp>>
  /\ UNCHANGED <<authVars, viewVars, formVars, createVars, rtVars>>

\* the rest of handle_new_user (role chosen, INSERT INTO user_roles and its
\* audit trigger) and the commit
signUp_commit(u, auditOk) ==
  /\ u \in InSignUp
  /\ Len(audit_logs) < MaxAudit
  /\ LET t == CHOOSE t \in signups : t.user = u
         user_role == handle_new_user(t.user_count, t.metaRole)
     IN /\ signups' = signups \ {t}
        /\ IF auditOk
           THEN /\ profiles' = profiles \cup {u}
                /\ user_roles' = [user_roles EXCEPT ![u] = {user_role}]
                /\ audit_logs' = audit_role_insert(audit_logs, u, user_role)
                /\ last' = Outcome("signUp", u, NoNotice, "none", "ok", FALSE, {})
           ELSE /\ UNCHANGED <<profiles, user_roles, audit_logs>>
                /\ last' = Outcome("signUp", u, NoNotice, "none", "error", TRUE, {})
  /\ UNCHANGED <<notices, nextId, now, roleOp>>
  /\ UNCHANGED <<authVars, viewVars, formVars, createVars, rtVars>>

----------------------------------------------------------------------------
(* AuthProvider and Dashboard *)

\* .single(): the row when there is exactly one, an error otherwise
single(rows) == IF Cardinality(rows) = 1 THEN CHOOSE r \in rows : TRUE ELSE NoRole

\* the stored role taken whatever the select answered
LookedUpRole_stored(rows, answer) ==
  IF rows # {} THEN CHOOSE r \in rows : TRUE ELSE "student"

\* the role fetchUserRole sets: answer is "rows" when the select is answered
\* from the table, "error" for an error returned, "exception" for a throw
LookedUpRole(rows, answer) ==
  IF answer = "rows" /\ single(rows) # NoRole THEN single(rows) ELSE "student"

\* what Dashboard renders
Dashboard ==
  IF loading THEN "Loader"
  ELSE IF user = NoUser \/ userRole = NoRole THEN "null"
  ELSE CASE userRole = "admin" -> "AdminDashboard"
         [] userRole = "staff" -> "StaffDashboard"
         [] OTHER -> "StudentDashboard"

\* getInitialSession / onAuthStateChange: u is session?.user ?? null
onAuthStateChange(u) ==
  /\ u \in profiles \cup {NoUser}
  /\ user' = u
  /\ IF u # NoUser
     THEN /\ Len(lookups) < MaxLookups
          /\ lookups' = Append(lookups, u)
          /\ UNCHANGED <<userRole, loading>>
     ELSE /\ userRole' = NoRole
          /\ loading' = FALSE
          /\ UNCHANGED lookups
  /\ last' = Outcome("onAuthStateChange", u, NoNotice, "none", "none", FALSE, {})
  /\ UNCHANGED <<profiles, user_roles, notices, nextId, audit_logs, now, roleOp>>
  /\ UNCHANGED <<viewVars, signups, formVars, createVars, rtVars>>

\* fetchUserRole after its select, then the caller's setLoading(false)
fetchUserRole_response(i, answer) ==
  /\ i \in DOMAIN lookups
  /\ LET userId == lookups[i]
         role == LookedUpRole(user_roles[userId], answer)
         found == answer = "rows" /\ single(user_roles[userId]) # NoRole
     IN /\ userRole' = role
        /\ last' = Outcome("fetchUserRole", userId, NoNotice, "none",
                           IF found THEN "ok" ELSE "defaulted", answer # "rows", {})
  /\ loading' = FALSE
  /\ lookups' = SubSeq(lookups, 1, i - 1) \o SubSeq(lookups, i + 1, Len(lookups))
  /\ UNCHANGED user
  /\ UNCHANGED <<profiles, user_roles, notices, nextId, audit_logs, now, roleOp>>
  /\ UNCHANGED <<viewVars, signups, formVars, createVars, rtVars>>

\* sign-ups that may overlap, and the sessions of the identities created
NextSignUp ==
  \/ \E metaRole \in Roles \cup {NoRole} : signUp_begin(metaRole)
  \/ \E u \in Users, auditOk \in BOOLEAN : signUp_commit(u, auditOk)
  \/ \E u \in Users \cup {NoUser} : onAuthStateChange(u)
  \/ \E i \in 1..MaxLookups, answer \in {"rows", "error", "exception"} :
       fetchUserRole_response(i, answer)

SpecSignUp == Init /\ [][NextSignUp]_vars

\* sessions and their role lookups while admins change roles
NextAuth ==
  \/ SignUp(NoRole, TRUE)
  \/ \E c \in Users, t \in Users, r \in Roles : handleUpdateRole_delete(c, t, r, TRUE)
  \/ \E c \in Users : handleUpdateRole_insert(c, TRUE)
  \/ \E u \in Users \cup {NoUser} : onAuthStateChange(u)
  \/ \E i \in 1..MaxLookups, answer \in {"rows", "error", "exception"} :
       fetchUserRole_response(i, answer)

SpecAuth == Init /\ [][NextAuth]_vars

----------------------------------------------------------------------------
(* The notice list and its view tracking, on a board where the first user   *)
(* (the admin) has created and approved up to MaxPublished notices, some of *)
(* them scheduled.  The page is the public page, or the student dashboard   *)
(* (which Dashboard also gives an admin whose role lookup failed).          *)

FirstUser == AllUsers[1]

\* the audit log after the sign-up and the create and approve of k notices
RECURSIVE PublishedLog(_, _)
PublishedLog(k, at) ==
  IF k = 0
  THEN audit_role_insert(<<>>, FirstUser, handle_new_user(1, NoRole))
  ELSE LET row == noticeData(FirstUser, 1, at[k])
       IN audit_notice_update(audit_notice_insert(PublishedLog(k - 1, at), k, row),
                              k, row, ApproveUpdate(row, FirstUser))

InitViews ==
  /\ profiles = {FirstUser}
  /\ user_roles = [u \in Users |-> IF u = FirstUser THEN {handle_new_user(1, NoRole)} ELSE {}]
  /\ now = 0
  /\ \E k \in 0..MaxPublished :
       \E at \in [1..k -> {NoTime} \cup (1..MaxTime)] :
         /\ notices = [n \in 1..k |->
                         ApproveUpdate(noticeData(FirstUser, 1, at[n]), FirstUser)]
         /\ nextId = k + 1
         /\ audit_logs = PublishedLog(k, at)
  /\ roleOp = {}
  /\ last = Outcome("init", NoUser, NoNotice, "none", "none", FALSE, {})
  /\ page \in Pages
  /\ user \in (IF page = "PublicNotices" THEN {NoUser, FirstUser} ELSE {FirstUser})
  /\ userRole = (IF user = NoUser THEN NoRole
                 ELSE IF page = "PublicNotices" THEN "admin" ELSE "student")
  /\ loading = FALSE
  /\ lookups = <<>>
  /\ signups = {}
  /\ InitForm
  /\ noticeList = {}
  /\ listLoading = TRUE
  /\ selecting = 0
  /\ tracking = <<>>
  /\ viewed_notices = <<>>
  /\ notice_views = <<>>
  /\ fetches = 0

NextViews ==
  \/ fetchNotices_start
  \/ \E selectOk \in BOOLEAN : fetchNotices_response(selectOk)
  \/ \E i \in 1..MaxFetches, answer \in {"ok", "error", "exception"} :
       trackNoticeViews_response(i, answer)
  \/ \E c \in Users, n \in 1..MaxPublished : handleDelete(c, n, TRUE)
  \/ Tick

SpecViews == InitViews /\ [][NextViews]_vars

----------------------------------------------------------------------------
(* The admin dashboard or the public page, just mounted by the first user   *)
(* (the admin): its first fetch is on its way and its channels deliver the  *)
(* row changes made from now on                                             *)

InitRealtime ==
  /\ profiles = {FirstUser}
  /\ user_roles = [u \in Users |-> IF u = FirstUser THEN {handle_new_user(1, NoRole)} ELSE {}]
  /\ now = 0
  /\ notices = <<>>
  /\ nextId = 1
  /\ audit_logs = PublishedLog(0, <<>>)
  /\ roleOp = {}
  /\ last = Outcome("init", NoUser, NoNotice, "none", "none", FALSE, {})
  /\ page \in {"AdminDashboard", "PublicNotices"}
  /\ user = FirstUser
  /\ userRole = "admin"
  /\ loading = FALSE
  /\ lookups = <<>>
  /\ signups = {}
  /\ formData = [title |-> <<>>, content |-> <<>>]
  /\ formModeration = NoResult
  /\ typed = <<>>
  /\ lastIndex = AtRest
  /\ InitCreate
  /\ cursor = [ch \in ChannelNames |-> 0]
  /\ inflight = <<Sent(FirstQuery(page))>>
  /\ pendingNotices = {}
  /\ called = {}
  /\ noticeList = {}
  /\ listLoading = TRUE
  /\ selecting = 0
  /\ tracking = <<>>
  /\ viewed_notices = <<>>
  /\ notice_views = <<>>
  /\ fetches = 0

NextRealtime ==
  \/ handleSubmit(FirstUser, 1, NoTime, 0, TRUE, TRUE)
  \/ \E n \in NoticeIds : handleApprove(FirstUser, n, TRUE)
  \/ \E n \in NoticeIds : handleReject(FirstUser, n, TRUE)
  \/ \E n \in NoticeIds : handleDelete(FirstUser, n, TRUE)
  \/ \E ch \in ChannelNames : postgres_changes(ch)
  \/ \E i \in 1..MaxInflight : select_notices(i)
  \/ \E i \in 1..MaxInflight : fetchNotices_resume(i)
  \/ \E i \in 1..MaxFetches : trackNoticeViews_response(i, "ok")

SpecRealtime == InitRealtime /\ [][NextRealtime]_vars

\* the channels deliver every change, the database answers every select and
\* every answer reaches the page
FairRealtime ==
  /\ \A ch \in ChannelNames : WF_vars(postgres_changes(ch))
  /\ \A i \in 1..MaxInflight : WF_vars(select_notices(i))
  /\ \A i \in 1..MaxInflight : WF_vars(fetchNotices_resume(i))

SpecRealtimeLive == InitRealtime /\ [][NextRealtime]_vars /\ FairRealtime

----------------------------------------------------------------------------
(* Properties *)

IsAdmin(u) == u \in Users /\ "admin" \in user_roles[u]
IsStaffOrAdmin(u) == u \in Users /\ user_roles[u] \cap {"staff", "admin"} # {}
Title(n) == Forms[notices[n].form].title
Content(n) == Forms[notices[n].form].content
Published(n) ==
  /\ notices[n].status = "approved"
  /\ (notices[n].publish_at = NoTime \/ notices[n].publish_at <= now)

\* C1: an Approve or Reject sent by an admin for a notice whose stored status
\* is already approved or rejected fails with an error and leaves the stored
\* status as it was (the only status changes are pending -> approved and
\* pending -> rejected).
C1_TerminalStatusIsFinal ==
  (/\ last.op \in {"approve", "reject"}
   /\ IsAdmin(last.caller)
   /\ last.pre \in {"approved", "rejected"})
  => /\ last.result = "error"
     /\ StatusOf(last.notice) = last.pre

\* C2: Approve, Reject and Delete sent by a caller who is not an admin (the
\* notice's own author included) leave the notice's status and its existence
\* unchanged.
C2_OnlyAdminsModerate ==
  (/\ last.op \in {"approve", "reject", "delete"}
   /\ ~IsAdmin(last.caller)
   /\ last.pre # "none")
  => StatusOf(last.notice) = last.pre

\* C3: a Create by a caller who is neither staff nor admin fails with an
\* error and persists nothing; a Create by a staff or admin caller (required
\* fields filled, storage answering) succeeds and persists a new notice with
\* status pending and author = caller.
C3_CreateNeedsStaffOrAdmin ==
  [][last'.op = "create" =>
       LET c == last'.caller
           f == last'.form
           id == last'.notice
       IN /\ ~IsStaffOrAdmin(c) =>
               /\ notices' = notices
               /\ last'.result # "ok"
               /\ RequiredFilled(f) => last'.result = "error"
          /\ (IsStaffOrAdmin(c) /\ RequiredFilled(f) /\ ~last'.fault) =>
               /\ last'.result = "ok"
               /\ id \notin DOMAIN notices
               /\ DOMAIN notices' = DOMAIN notices \cup {id}
               /\ notices'[id].status = "pending"
               /\ notices'[id].author_id = c
               /\ notices'[id].form = f]_vars

\* a student's Create has been refused
C3_Witness ==
  /\ last.op = "create"
  /\ last.result = "error"
  /\ ~last.fault
  /\ user_roles[last.caller] = {"student"}
  /\ RequiredFilled(last.form)

\* C4: after an Approve by admin a on a pending notice has succeeded, the
\* stored notice has status approved, approved_by = a and an approval time.
C4_ApproveRecordsApprover ==
  (/\ last.op = "approve"
   /\ last.result = "ok"
   /\ IsAdmin(last.caller)
   /\ last.pre = "pending")
  => /\ Exists(last.notice)
     /\ notices[last.notice].status = "approved"
     /\ notices[last.notice].approved_by = last.caller
     /\ notices[last.notice].approved_at # NoTime

\* C5: the screener's verdict never aborts Create: a Create fails only for
\* an empty required field, a caller without the staff or admin role, or a
\* storage fault, whatever moderateContent reports; and every newly
\* persisted notice has status pending.
C5_VerdictNeverAborts ==
  last.op = "create" =>
    /\ last.result # "ok" =>
         \/ ~RequiredFilled(last.form)
         \/ ~IsStaffOrAdmin(last.caller)
         \/ last.fault
    /\ last.result = "ok" =>
         /\ Exists(last.notice)
         /\ notices[last.notice].form = last.form
         /\ notices[last.notice].status = "pending"

\* a form the screener flags with three or more issues has been persisted
C5_Witness ==
  /\ last.op = "create"
  /\ last.result = "ok"
  /\ ~moderationResult(last.form).approved
  /\ moderationResult(last.form).severity = "high"
  /\ notices[last.notice].status = "pending"

\* C6: every persisted notice has a non-empty title and 10 to 10000
\* characters of content (a Create outside these limits persists no row).
C6_PersistedContentIsValid ==
  \A n \in DOMAIN notices :
    /\ Title(n) # <<>>
    /\ Len(Content(n)) >= MinContentLength
    /\ Len(Content(n)) <= MaxContentLength

\* C7: the list a student obtains holds a notice of another author iff the
\* notice is approved and its publish_at is null or not later than now.
C7_StudentSeesPublished ==
  (/\ last.op = "fetchNotices"
   /\ user_roles[last.caller] = {"student"})
  => \A n \in DOMAIN notices :
       notices[n].author_id # last.caller =>
         (n \in last.list <=> Published(n))

ActionOf(op) ==
  CASE op = "create" -> "create" [] op = "approve" -> "approve"
    [] op = "reject" -> "reject" [] OTHER -> "delete"

\* C8: each successful Create, Approve, Reject and Delete of a notice by a
\* caller entitled to it appends exactly one audit event for that notice,
\* whose action is create, approve, reject and delete respectively.
C8_OneEventPerOperation ==
  [][(/\ last'.op \in {"create", "approve", "reject", "delete"}
      /\ last'.result = "ok"
      /\ last'.op # "create" => (IsAdmin(last'.caller) /\ Exists(last'.notice)))
     => /\ Len(audit_logs') = Len(audit_logs) + 1
        /\ SubSeq(audit_logs', 1, Len(audit_logs)) = audit_logs
        /\ audit_logs'[Len(audit_logs')].entity_type = "notice"
        /\ audit_logs'[Len(audit_logs')].entity_id = last'.notice
        /\ audit_logs'[Len(audit_logs')].action = ActionOf(last'.op)]_vars

\* C9: the audit log is append-only: every step leaves the events already
\* recorded in place and unchanged, so the log after a step extends the log
\* before it.
C9_AuditLogAppendOnly ==
  [][/\ Len(audit_logs') >= Len(audit_logs)
     /\ SubSeq(audit_logs', 1, Len(audit_logs)) = audit_logs]_vars

\* an admin has read back and exported a log of four events, a create and a
\* delete among them
C9_Witness ==
  /\ Len(audit_logs) >= 4
  /\ \E i \in 1..Len(audit_logs) : audit_logs[i].action = "delete"
  /\ \E i \in 1..Len(audit_logs) : audit_logs[i].action = "create"
  /\ last.op = "exportLogs"
  /\ last.list = 1..Len(audit_logs)

\* C10: when recording the audit event fails, the operation that fired it
\* still takes effect and does not report failure to its caller.
C10_AuditFailureIsHarmless ==
  (/\ last.fault
   /\ last.op \in {"create", "approve", "reject", "delete", "roleInsert"})
  => /\ last.result = "ok"
     /\ last.op = "create" => Exists(last.notice)
     /\ last.op = "approve" => StatusOf(last.notice) = "approved"
     /\ last.op = "reject" => StatusOf(last.notice) = "rejected"
     /\ last.op = "delete" => ~Exists(last.notice)

ViewsOf(n) == {i \in DOMAIN notice_views : notice_views[i].notice_id = n}

\* C11: whatever the interleaving of the fetches of one session and of the
\* answers to their view inserts, notice_views holds at most one row for a
\* notice id.
C11_OneViewPerNotice ==
  \A n \in 1..MaxPublished : Cardinality(ViewsOf(n)) <= 1

\* C12: when the only tracking call in progress answers with its insert
\* stored, and the seen-set S is still the one the call read, exactly one row
\* per id of V minus S is added to notice_views (V the ids the call was given),
\* none for an id of S, and the seen-set becomes S union V; a fetch whose ids
\* are all in S sends no insert and leaves both alone.
C12_TracksUnseenOnce ==
  [][/\ (/\ last'.op = "trackNoticeViews"
         /\ last'.result = "ok"
         /\ Len(tracking) = 1
         /\ tracking[1].viewedIds = viewed_notices)
        => LET V == Range(tracking[1].notices)
               S == Range(viewed_notices)
               added == SubSeq(notice_views', Len(notice_views) + 1, Len(notice_views'))
           IN /\ SubSeq(notice_views', 1, Len(notice_views)) = notice_views
              /\ Len(added) = Cardinality(V \ S)
              /\ {added[i].notice_id : i \in DOMAIN added} = V \ S
              /\ Range(viewed_notices') = S \cup V
     /\ (/\ last'.op = "fetchResponse"
         /\ last'.result = "ok"
         /\ tracking = <<>>
         /\ last'.list \subseteq Range(viewed_notices))
        => /\ tracking' = <<>>
           /\ notice_views' = notice_views
           /\ viewed_notices' = viewed_notices]_vars

\* with notice 1 already seen, a later fetch of notices 1 and 2 has stored one
\* row, for notice 2
C12_Witness ==
  /\ last.op = "trackNoticeViews"
  /\ last.result = "ok"
  /\ last.list = {1, 2}
  /\ viewed_notices = <<1, 2>>
  /\ Len(notice_views) = 2
  /\ notice_views[2].notice_id = 2
  /\ tracking = <<>>

\* C13: a fetch whose select answered stores its list and ends loading
\* whether or not views are to be recorded, and a failed insert of the views
\* (error returned or exception) is swallowed: it leaves the stored list, the
\* loading flag and the seen-set as they were.
C13_TrackingFailureIsSwallowed ==
  [][/\ (last'.op = "fetchResponse" /\ last'.result = "ok")
        => /\ noticeList' = last'.list
           /\ ~listLoading'
     /\ (last'.op = "trackNoticeViews" /\ last'.fault)
        => /\ last'.result \in {"ignored", "logged"}
           /\ viewed_notices' = viewed_notices
           /\ notice_views' = notice_views
           /\ noticeList' = noticeList
           /\ listLoading' = listLoading]_vars

\* the insert of a fetched notice's view has failed while its list is shown
C13_Witness ==
  /\ last.op = "trackNoticeViews"
  /\ last.fault
  /\ last.list # {}
  /\ noticeList = last.list
  /\ ~listLoading
  /\ viewed_notices = <<>>


\* C14: in every state in which no assignRole is between its delete and its
\* insert, every identity that has signed up holds exactly one role.
C14_ExactlyOneRole ==
  roleOp = {} => \A u \in profiles : Cardinality(user_roles[u]) = 1


\* C15: a step of assignRole (its delete or its insert) sent by a caller who
\* does not hold the admin role leaves every identity's roles as they were,
\* and the insert answers with an error.
C15_AssignRoleNeedsAdmin ==
  [][(last'.op \in {"roleDelete", "roleInsert"} /\ ~IsAdmin(last'.caller))
     => /\ user_roles' = user_roles
        /\ last'.op = "roleInsert" => last'.result = "error"]_vars

\* a student's assignRole has been refused at its insert
C15_Witness ==
  /\ last.op = "roleInsert"
  /\ last.result = "error"
  /\ ~last.fault
  /\ user_roles[last.caller] = {"student"}


\* C16: a sign-up that carries no role commits with role admin when no
\* identity has been created before it (no profile is stored yet) and with
\* role student otherwise, whatever the interleaving of the sign-ups.
C16_OnlyFirstIsAdmin ==
  [][(/\ last'.op = "signUp"
      /\ last'.result = "ok"
      /\ \E t \in signups : t.user = last'.caller /\ t.metaRole = NoRole)
     => user_roles'[last'.caller] = (IF profiles = {} THEN {"admin"} ELSE {"student"})]_vars

\* C17: a role lookup that finds no single row, gets an error or throws sets
\* the effective role to student, and a signed-in identity is then shown the
\* student dashboard.
C17_FailedLookupIsStudent ==
  [][(last'.op = "fetchUserRole" /\ last'.result = "defaulted")
     => /\ userRole' = "student"
        /\ user' # NoUser => Dashboard' = "StudentDashboard"]_vars

\* the lookup of a signed-in admin has failed with an error or a throw and
\* the student dashboard is shown
C17_Witness ==
  /\ last.op = "fetchUserRole"
  /\ last.result = "defaulted"
  /\ last.fault
  /\ user = last.caller
  /\ user_roles[user] = {"admin"}
  /\ userRole = "student"
  /\ Dashboard = "StudentDashboard"


\* the same letter, whatever its casing
SameLetter(a, b) ==
  a = b \/ \E i \in 1..Len(UpperLetters) : {a, b} = {UpperLetters[i], LowerLetters[i]}

\* s contains the word w in some casing
ContainsAnyCase(s, w) ==
  \E i \in 1..(Len(s) - Len(w) + 1) :
    \A k \in 1..Len(w) : SameLetter(s[i + k - 1], w[k])

\* C18: when the title or the content of the form contains a banned word in
\* any casing, the verdict is not approved and its banned-words issue names
\* that word.
C18_BannedWordIsFlagged ==
  \A w \in 1..Len(BANNED_WORDS) :
    (\/ ContainsAnyCase(formData.title, BANNED_WORDS[w])
     \/ ContainsAnyCase(formData.content, BANNED_WORDS[w]))
    => /\ ~formModeration.approved
       /\ "Contains banned words" \in Range(formModeration.issues)
       /\ w \in formModeration.banned

\* a title holding "sPaM" and a content holding "OFFENSIVE" are both named
C18_Witness ==
  /\ ContainsAnyCase(formData.title, BANNED_WORDS[3])
  /\ ~includes(formData.title, BANNED_WORDS[3])
  /\ ContainsAnyCase(formData.content, BANNED_WORDS[2])
  /\ ~includes(formData.content, BANNED_WORDS[2])
  /\ formModeration.banned = {2, 3}
  /\ ~formModeration.approved

\* C19: a verdict is approved iff it has no issue, and its severity is high
\* iff it has more than 2 issues, medium iff 1 or 2, low iff none.
C19_SeverityFollowsIssueCount ==
  (formData.title # <<>> \/ formData.content # <<>>)
  => LET m == formModeration
         n == Len(m.issues)
     IN /\ m.approved <=> n = 0
        /\ m.severity = "high" <=> n > 2
        /\ m.severity = "medium" <=> (n = 1 \/ n = 2)
        /\ m.severity = "low" <=> n = 0

\* a verdict with exactly two issues is of medium severity
C19_Witness ==
  /\ Len(formModeration.issues) = 2
  /\ formModeration.severity = "medium"
  /\ ~formModeration.approved

\* C20: sanitizing what was entered a second time changes nothing, and the
\* content held by the form is left as it is by the sanitizer.
C20_SanitizeIdempotent ==
  /\ sanitizeContent(sanitizeContent(typed)) = sanitizeContent(typed)
  /\ sanitizeContent(formData.content) = formData.content

\* text with carriage returns, a run of breaks and a trailing break has been
\* entered and the form holds its sanitized content
C20_Witness ==
  /\ includes(typed, <<"\r", "\r", "\r">>)
  /\ typed[Len(typed)] = "\n"
  /\ formData.content = sanitizeContent(typed)
  /\ includes(formData.content, <<"\n", "\n">>)
  /\ ~includes(formData.content, <<"\n", "\n", "\n">>)
  /\ Len(formData.content) < Len(typed) - 1


\* C21: the sanitized text holds no carriage return, no run of three or more
\* line feeds and no white space at its ends, and a run of three or more line
\* breaks between two characters of the entered text comes out as exactly two
\* line feeds between them.
C21_SanitizedShape ==
  LET out == sanitizeContent(typed)
      N == NormalizeBreaks(typed)
  IN /\ "\r" \notin Range(out)
     /\ ~includes(out, <<"\n", "\n", "\n">>)
     /\ out # <<>> => (out[1] \notin WhiteSpace /\ out[Len(out)] \notin WhiteSpace)
     /\ \A i \in 1..Len(N), j \in 1..Len(N) :
          (/\ j >= i + 4
           /\ N[i] \notin WhiteSpace
           /\ N[j] \notin WhiteSpace
           /\ \A k \in (i + 1)..(j - 1) : N[k] = "\n")
          => includes(out, <<N[i], "\n", "\n", N[j]>>)

\* a, four line breaks, b has been entered and the form holds a, two line
\* feeds, b
C21_Witness ==
  /\ typed = <<"a", "b", "\n", "\r", "\r", "\r", "a", "b">>
  /\ formData.content = <<"a", "b", "\n", "\n", "a", "b">>


\* s holds http:// or https:// in some casing, followed by a character that
\* is not white space
HasUrl(s) ==
  \E i \in 1..Len(s) : \E k \in {4, 5} :
    /\ i + k + 3 <= Len(s)
    /\ ContainsAnyCase(SubSeq(s, i, i + k + 2),
                       IF k = 4 THEN <<"h","t","t","p",":","/","/">>
                       ELSE <<"h","t","t","p","s",":","/","/">>)
    /\ s[i + k + 3] \notin WhiteSpace

\* s holds n consecutive characters of S
HasRun(s, S, n) ==
  \E i \in 1..(Len(s) - n + 1) : \A k \in i..(i + n - 1) : s[k] \in S

\* C22: the verdict on the form has the issue 'Contains URLs' iff its title
\* or content holds an http or https URL, 'Contains long numbers' iff one of
\* them holds 10 or more consecutive digits, and 'Contains excessive
\* capitalization' iff one of them holds 5 or more consecutive uppercase
\* letters.
C22_PatternIssuesFollowText ==
  (formData.title # <<>> \/ formData.content # <<>>)
  => LET issues == Range(formModeration.issues)
     IN /\ "Contains URLs" \in issues
             <=> (HasUrl(formData.title) \/ HasUrl(formData.content))
        /\ "Contains long numbers" \in issues
             <=> (\/ HasRun(formData.title, Digits, LongNumberDigits)
                  \/ HasRun(formData.content, Digits, LongNumberDigits))
        /\ "Contains excessive capitalization" \in issues
             <=> (\/ HasRun(formData.title, UpperCase, CapsRun)
                  \/ HasRun(formData.content, UpperCase, CapsRun))

\* the content is OFFENSIVE, nine uppercase letters, the patterns have not
\* been advanced, and the verdict has no capitalization issue
C22_UppercaseNotFlagged ==
  /\ formData.content = Chunks[3]
  /\ HasRun(formData.content, UpperCase, CapsRun)
  /\ lastIndex = AtRest
  /\ "Contains excessive capitalization" \notin Range(formModeration.issues)

\* C23: the verdict held for a title and a content is the verdict a call
\* with these arguments returns when no call came before it: the verdict of
\* moderateContent depends on its arguments and not on the previous calls.
C23_VerdictDependsOnArgumentsOnly ==
  (formData.title # <<>> \/ formData.content # <<>>)
  => formModeration = moderateContent(formData.title, formData.content, AtRest)

\* the content is a URL under an empty title and the verdict has no URL
\* issue, while the call with the same arguments and no call before it has
C23_SecondCallDiffers ==
  /\ formData.title = <<>>
  /\ formData.content = Chunks[4]
  /\ "Contains URLs" \notin Range(formModeration.issues)
  /\ "Contains URLs" \in
       Range(moderateContent(formData.title, formData.content, AtRest).issues)


\* C24: a Create whose attachment insert fails after the notice row was
\* inserted reports an error; the notice row stays stored, pending and with
\* no attachment, no other row is removed, and the dialog stays open with
\* the form and the attachments it held.
C24_FailedAttachmentsLeaveNotice ==
  [][(/\ last'.op = "create"
      /\ last'.result = "error"
      /\ last'.notice # NoNotice)
     => /\ DOMAIN notices' = DOMAIN notices \cup {last'.notice}
        /\ last'.notice \notin DOMAIN notices
        /\ notices'[last'.notice].status = "pending"
        /\ notices'[last'.notice].form = last'.form
        /\ \A n \in DOMAIN notices : notices'[n] = notices[n]
        /\ last'.notice \notin DOMAIN notice_attachments'
        /\ dialog'.open
        /\ dialog'.form = last'.form
        /\ dialog'.attachments > 0]_vars

\* a Create with an attachment has failed at the attachment insert: its
\* notice is stored pending without attachments and the dialog is still
\* open on the form
C24_Witness ==
  /\ last.op = "create"
  /\ last.result = "error"
  /\ last.fault
  /\ Exists(last.notice)
  /\ notices[last.notice].status = "pending"
  /\ AttachmentsOf(last.notice) = 0
  /\ dialog = Dialog(TRUE, last.form, 1)


\* every row change has been delivered by every channel of the page and no
\* select is on its way
Settled ==
  /\ inflight = <<>>
  /\ \A ch \in Channels(page) : cursor[ch] = Len(NoticeEvents)

\* C25: on each page, when every change has been notified and every fetch
\* has resolved, the displayed lists are what the page's list queries return
\* on the stored notices.
C25_SettledListIsCurrent ==
  Settled =>
    IF page = "AdminDashboard"
    THEN /\ pendingNotices = QueryResult("pending", user)
         /\ noticeList = QueryResult("all", user)
    ELSE noticeList = QueryResult("published", user)

\* the page is settled and still lists a notice that is no longer published
C25_StaleListDisplayed ==
  /\ Settled
  /\ noticeList = {1}
  /\ Exists(1)
  /\ notices[1].status = "rejected"
  /\ QueryResult(IF page = "AdminDashboard" THEN "all" ELSE "published", user) = {}


\* C27: whenever a notice is published, the callback of subscribeToNotices
\* is eventually invoked for it on the page that subscribed.
C27_PublishedIsNotified ==
  \A n \in NoticeIds :
    (page = "PublicNotices" /\ Exists(n) /\ notices[n].status = "approved")
      ~> (n \in called)

\* a created notice has been approved, both channels of the public page have
\* delivered every change, and the callback of subscribeToNotices was never
\* invoked
C27_ApprovalNotNotified ==
  /\ page = "PublicNotices"
  /\ Exists(1)
  /\ notices[1].status = "approved"
  /\ \A ch \in Channels(page) : cursor[ch] = Len(NoticeEvents)
  /\ \E i \in DOMAIN audit_logs :
       audit_logs[i].action = "approve" /\ audit_logs[i].entity_id = 1
  /\ called = {}


\* C26: the actor of every audit event is the identity that invoked the
\* operation the event was logged for: the admin for an approve, a reject or
\* a role change, the author for a create.
C26_ActorIsInvoker ==
  [][\A i \in (Len(audit_logs) + 1)..Len(audit_logs') :
       audit_logs'[i].user_id = last'.caller]_vars

\* an admin has assigned a role to another identity and the event names that
\* identity, not the admin, as its actor
C26_RoleEventNamesTarget ==
  /\ last.op = "roleInsert"
  /\ last.result = "ok"
  /\ IsAdmin(last.caller)
  /\ Len(audit_logs) > 0
  /\ audit_logs[Len(audit_logs)].action = "assign_role"
  /\ audit_logs[Len(audit_logs)].user_id # last.caller


\* C28: whenever the provider is not loading, a user is signed in and no
\* role lookup is outstanding, the role it holds is the one resolved for
\* that user: the user's stored role, or student when the lookup failed.
C28_RoleBelongsToUser ==
  (~loading /\ user # NoUser /\ lookups = <<>>)
  => \E answer \in {"rows", "error"} :
       userRole = LookedUpRole(user_roles[user], answer)

\* a student is signed in, nothing is outstanding, and the provider holds
\* admin, the role of the user signed in before: the admin dashboard is shown
C28_PreviousUsersRoleShown ==
  /\ ~loading
  /\ user = AllUsers[2]
  /\ user_roles[user] = {"student"}
  /\ lookups = <<>>
  /\ userRole = "admin"
  /\ Dashboard = "AdminDashboard"

\* C29: a notice has an approval timestamp iff its status is approved.
C29_ApprovedAtIffApproved ==
  \A n \in DOMAIN notices :
    notices[n].approved_at # NoTime <=> notices[n].status = "approved"

\* a rejected notice carries the approval timestamp of an earlier approve
C29_RejectedKeepsTimestamp ==
  /\ Exists(1)
  /\ notices[1].status = "rejected"
  /\ notices[1].approved_at # NoTime
  /\ last.op = "reject"
  /\ last.pre = "approved"

\* C30: an identity other than the first holds the role student and no
\* other, whatever its sign-up request carried, as long as no admin has
\* assigned it a role.
C30_LaterSignUpIsStudent ==
  \A u \in profiles \ {FirstUser} : user_roles[u] = {"student"}

\* the second identity has signed up and is an admin without any role
\* assignment: the only role events are those of the two sign-ups
C30_SignUpGrantsAdmin ==
  /\ AllUsers[2] \in profiles
  /\ user_roles[AllUsers[2]] = {"admin"}
  /\ last.op = "signUp"
  /\ last.caller = AllUsers[2]
  /\ Len(SelectSeq(audit_logs, LAMBDA e : e.entity_type = "user_role")) = 2

====
